---- MODULE Spec2Model ----
(***************************************************************************)
(* Model of src/algorithms/ransacpoly.py: class RansacPoly.                *)
(*                                                                         *)
(* One RansacPoly instance is modelled.  set_2d_data is one action; fit is *)
(* a straight-line routine that is followed with a program counter:        *)
(*   fit_begin  lines 61-65   the None check and  self.__sel_idx = None    *)
(*   fit_trial  lines 66-90   one iteration of the for loop                *)
(*   fit_end    lines 92-99   the refit over the selected points           *)
(* While a fit call is in progress no other method runs (one thread).      *)
(*                                                                         *)
(* numpy floats are modelled by exact rationals <<num, den>>, den > 0, in  *)
(* lowest terms.  numpy indices 0..N-1 are 1..N here.                      *)
(***************************************************************************)
EXTENDS Integers, Sequences, FiniteSets, TLC

\* ---------------------------------------------------------------- bounds
MaxLen == 2
MaxVal == 1
MaxTries == 2

\* An attribute that may be None holds None or Some(v); Val reads v.
None == <<>>
Some(v) == <<v>>
Val(o) == o[1]

\* ------------------------------------------------------ rational numbers
RECURSIVE GCD(_, _)
GCD(a, b) == IF b = 0 THEN a ELSE GCD(b, a % b)

AbsInt(a) == IF a < 0 THEN -a ELSE a

Rat(n, d) ==
    LET s == IF d < 0 THEN -1 ELSE 1
        g == GCD(AbsInt(n), AbsInt(d))
    IN  <<(s * n) \div g, (s * d) \div g>>

RInt(n) == <<n, 1>>
RAdd(p, q) == Rat(p[1] * q[2] + q[1] * p[2], p[2] * q[2])
RSub(p, q) == Rat(p[1] * q[2] - q[1] * p[2], p[2] * q[2])
RMul(p, q) == Rat(p[1] * q[1], p[2] * q[2])
RAbs(p) == <<AbsInt(p[1]), p[2]>>
RLess(p, q) == p[1] * q[2] < q[1] * p[2]

\* ------------------------------------------------------ sequence helpers
RECURSIVE SumSeq(_)
SumSeq(s) == IF s = <<>> THEN 0 ELSE Head(s) + SumSeq(Tail(s))

Dot(s, t) == SumSeq([j \in 1..Len(s) |-> s[j] * t[j]])

\* np.count_nonzero of a boolean array; np.count_nonzero(None) is 0
count_nonzero(m) ==
    IF m = None THEN 0 ELSE Cardinality({j \in 1..Len(Val(m)) : Val(m)[j]})

\* a[idx] for an integer index array idx (fancy indexing)
Take(a, idx) == [j \in 1..Len(idx) |-> a[idx[j]]]

\* the positions of the True entries of a boolean mask, in order
RECURSIVE TruePos(_, _)
TruePos(m, j) ==
    IF j > Len(m) THEN <<>>
    ELSE (IF m[j] THEN <<j>> ELSE <<>>) \o TruePos(m, j + 1)

\* a[mask] for a boolean mask of the same length
Masked(a, m) == Take(a, TruePos(m, 1))


\* ------------------------------------------------------------- the state
VARIABLES
    nr_tries,     \* self.nr_tries
    max_dif,      \* self.max_dif      (a rational)
    min_percent,  \* self.min_percent  (a rational)
    x,            \* self.__x : None or a sequence of numbers
    y,            \* self.__y : None or a sequence of numbers
    fit_params,   \* self.__fit_params : None or a sequence of rationals
    sel_idx,      \* self.__sel_idx : None or a sequence of booleans
    pc,           \* "idle", or the position inside fit: "loop", "final"
    poly_ord,     \* argument of the current (or last) fit call
    i,            \* number of loop iterations done by the current fit call
    printed,      \* the messages printed by the current (or last) call
    raised,       \* the last call ended with an exception
    last_op,      \* "none", "set" or "fit": the current (or last) call
    log,          \* history: one record per loop iteration of the fit call
    pre,          \* history: <<fit_params, sel_idx>> when fit was entered
    written,      \* history: <<mask, params>> assigned by the fit call
    args_valid,   \* history: <<x, y>> argument of set_2d_data was valid
    assigned,     \* history: <<x, y>> was assigned by the set_2d_data call
    paired,       \* history: the stored x and y were stored by one call
    win,          \* history: the sample of the last trial that replaced the mask
    ref_sel,      \* the mask a second, newly constructed instance holds
    ref_params    \* when it is given the same data, order and samples

config == <<nr_tries, max_dif, min_percent>>
data == <<x, y>>
result == <<fit_params, sel_idx>>
control == <<pc, poly_ord, i, printed, raised, last_op>>
history == <<log, pre, written, args_valid, assigned, paired, win, ref_sel, ref_params>>
vars == <<config, data, result, control, history>>

\* ----------------------------------------------------- input domains
Orders == {0, 1}
Tolerances == {<<1, 1>>}
Fractions == {<<0, 1>>, <<1, 2>>}

NumSeqs == UNION {[1..n -> 0..MaxVal] : n \in 0..MaxLen}

\* an argument of set_2d_data: not a list, a list of text, a list of numbers
NotAList == [list |-> FALSE, numeric |-> FALSE, data |-> <<>>]
TextList == [list |-> TRUE, numeric |-> FALSE, data |-> <<>>]
NumList(s) == [list |-> TRUE, numeric |-> TRUE, data |-> s]
Inputs == {NotAList, TextList} \cup {NumList(s) : s \in NumSeqs}

MsgXElems == "invalid data type: x elements must be int or float"
MsgXList == "invalid data type: x must be a list or a numpy array"
MsgYElems == "invalid data type: y elements must be int or float"
MsgYList == "invalid data type: y must be a list or a numpy array"
MsgNoData == "please first provide the data points"
MsgNoFit == "unable to fit provided data points with current parameters"

\* ------------------------------------------------------ numpy routines
\* The outcome of a call that may raise.
Raise == [raised |-> TRUE, c |-> <<>>]
Return(c) == [raised |-> FALSE, c |-> c]

\* np.polynomial.polynomial.polyfit(xs, ys, deg) for deg in Orders: the
\* least-squares solution; of a rank-deficient system (all xs equal, deg 1)
\* numpy's lstsq returns the minimum-norm solution in the column-scaled
\* basis, with a RankWarning and no exception.  Empty or unequal-length
\* arguments raise TypeError.
polyfit(xs, ys, deg) ==
    LET n == Len(xs)
        Sx == SumSeq(xs)
        Sy == SumSeq(ys)
        Sxx == Dot(xs, xs)
        Sxy == Dot(xs, ys)
        D == n * Sxx - Sx * Sx
    IN  IF n = 0 \/ Len(ys) # n THEN Raise
        ELSE IF deg = 0 THEN Return(<<Rat(Sy, n)>>)
        ELSE IF D # 0
            THEN Return(<<Rat(Sy * Sxx - Sx * Sxy, D), Rat(n * Sxy - Sx * Sy, D)>>)
        ELSE IF xs[1] = 0 THEN Return(<<Rat(Sy, n), RInt(0)>>)
        ELSE Return(<<Rat(Sy, 2 * n), Rat(Sy, 2 * n * xs[1])>>)

\* np.polynomial.polynomial.polyval(xs, c): c[1] + c[2]*x + ... at every x
RECURSIVE Horner(_, _, _)
Horner(c, k, v) ==
    IF k > Len(c) THEN RInt(0)
    ELSE RAdd(c[k], RMul(RInt(v), Horner(c, k + 1, v)))

polyval(xs, c) == [j \in 1..Len(xs) |-> Horner(c, 1, xs[j])]

\* val - y is defined when the shapes are equal or one of them is 1
Broadcastable(n, m) == n = m \/ n = 1 \/ m = 1
BroadcastLen(n, m) == IF n = 1 THEN m ELSE n
At(a, j) == IF Len(a) = 1 THEN a[1] ELSE a[j]

\* line 80: abs(val - self.__y) < self.max_dif
select(val, yv) ==
    [j \in 1..BroadcastLen(Len(val), Len(yv)) |->
        RLess(RAbs(RSub(At(val, j), RInt(At(yv, j)))), max_dif)]

\* ------------------------------------------------------- set_2d_data
\* lines 39 and 49: isinstance(v, (list, np.ndarray))
isinstance(v) == v.list

\* lines 41 and 51: np.array(v).dtype in [int, float]
dtype_ok(v) == v.numeric

\* lines 39-46 (x) and 49-56 (y): the attribute after the check of one argument
checked(v, old) == IF isinstance(v) /\ dtype_ok(v) THEN Some(v.data) ELSE old

complaint(v, elems, list) ==
    IF ~isinstance(v) THEN {list} ELSE IF ~dtype_ok(v) THEN {elems} ELSE {}

set_2d_data(ax, ay) ==
    /\ pc = "idle"
    /\ x' = checked(ax, x)
    /\ y' = checked(ay, y)
    /\ printed' = complaint(ax, MsgXElems, MsgXList) \cup complaint(ay, MsgYElems, MsgYList)
    /\ raised' = FALSE
    /\ last_op' = "set"
    /\ poly_ord' = 0
    /\ i' = 0
    /\ log' = <<>>
    /\ pre' = <<None, None>>
    /\ written' = <<FALSE, FALSE>>
    /\ args_valid' = <<ax.list /\ ax.numeric, ay.list /\ ay.numeric>>
    /\ assigned' = <<isinstance(ax) /\ dtype_ok(ax), isinstance(ay) /\ dtype_ok(ay)>>
    /\ paired' = IF assigned'[1] /\ assigned'[2] THEN TRUE
                 ELSE IF assigned'[1] \/ assigned'[2] THEN FALSE
                 ELSE paired
    /\ win' = None
    /\ ref_sel' = None
    /\ ref_params' = None
    /\ UNCHANGED <<config, result, pc>>

\* ---------------------------------------------------------------- fit
\* line 65: the value self.__sel_idx gets before the loop
sel_on_entry_keep(old) == old
sel_on_entry(old) == None

\* line 85: count > self.min_percent * self.__x.size
test_size(count, size) == count * min_percent[2] > min_percent[1] * size

\* line 86: (self.__sel_idx is None) or (count > count_best)
test_best_ties(sel, count) == sel = None \/ count >= count_nonzero(sel)
test_best_first(sel, count) == sel = None
test_best(sel, count) == sel = None \/ count > count_nonzero(sel)

\* a sample that cannot determine the polynomial: repeated x-values
degenerate(xv, rnd) ==
    Cardinality({xv[rnd[j]] : j \in 1..Len(rnd)}) < Len(rnd)

\* lines 89-90: an exception inside the try block ends the iteration
Skip(sel) == [skipped |-> TRUE, count |-> 0, took |-> FALSE, sel |-> sel]

\* lines 70-90: one iteration with the sample rnd, from the best mask sel
try_body(xv, yv, ord, rnd, sel) ==
    IF \E j \in 1..Len(rnd) : rnd[j] > Len(yv)
        THEN Skip(sel)                        \* IndexError in y[rnd_idx]
    ELSE LET f == polyfit(Take(xv, rnd), Take(yv, rnd), ord) IN
        IF f.raised \/ Len(f.c) < ord + 1 THEN Skip(sel)
        ELSE IF ~Broadcastable(Len(xv), Len(yv))
            THEN Skip(sel)                    \* ValueError in val - y
        ELSE LET m == select(polyval(xv, f.c), yv)
                 count == count_nonzero(Some(m))
                 take == test_size(count, Len(xv)) /\ test_best(sel, count)
             IN  [skipped |-> FALSE, count |-> count, took |-> take,
                  sel |-> IF take THEN Some(m) ELSE sel]

\* lines 94-96: the fit over the selected points; a boolean index of another
\* length than the indexed array raises IndexError
refit_all_points(xv, yv, sel, ord) == polyfit(xv, yv, ord)
refit(xv, yv, sel, ord) ==
    IF Len(sel) # Len(xv) \/ Len(sel) # Len(yv) THEN Raise
    ELSE polyfit(Masked(xv, sel), Masked(yv, sel), ord)

\* line 98: the value self.__fit_params gets when no mask was selected
params_on_no_fit_keep(old) == old
params_on_no_fit(old) == None

fit_begin(ord) ==
    /\ pc = "idle"
    /\ last_op' = "fit"
    /\ poly_ord' = ord
    /\ i' = 0
    /\ raised' = FALSE
    /\ log' = <<>>
    /\ pre' = <<fit_params, sel_idx>>
    /\ win' = None
    /\ ref_sel' = None
    /\ ref_params' = None
    /\ IF x = None \/ y = None
        THEN /\ printed' = {MsgNoData}
             /\ written' = <<FALSE, FALSE>>
             /\ UNCHANGED <<pc, sel_idx>>
        ELSE /\ printed' = {}
             /\ sel_idx' = sel_on_entry(sel_idx)
             /\ written' = <<TRUE, FALSE>>
             /\ pc' = "loop"
    /\ args_valid' = <<FALSE, FALSE>>
    /\ assigned' = <<FALSE, FALSE>>
    /\ UNCHANGED <<config, data, fit_params, paired>>

fit_trial ==
    /\ pc = "loop"
    /\ i < nr_tries
    /\ IF Len(Val(x)) = 0
        THEN \* line 68: np.random.randint(0, ...) raises ValueError
             /\ pc' = "idle"
             /\ raised' = TRUE
             /\ UNCHANGED <<sel_idx, i, log, win, ref_sel>>
        ELSE \E rnd \in [1..(poly_ord + 1) -> 1..Len(Val(x))] :
             LET t == try_body(Val(x), Val(y), poly_ord, rnd, sel_idx)
                 r == try_body(Val(x), Val(y), poly_ord, rnd, ref_sel)
             IN  /\ sel_idx' = t.sel
                 /\ ref_sel' = r.sel
                 /\ win' = IF t.took THEN Some(rnd) ELSE win
                 /\ log' = Append(log, [degenerate |-> degenerate(Val(x), rnd),
                                         skipped |-> t.skipped,
                                         count |-> t.count,
                                         took |-> t.took])
                 /\ i' = i + 1
                 /\ UNCHANGED <<pc, raised>>
    /\ UNCHANGED <<config, data, fit_params, poly_ord, printed, last_op>>
    /\ UNCHANGED <<pre, written, args_valid, assigned, paired, ref_params>>

fit_end ==
    /\ pc = "loop"
    /\ i = nr_tries
    /\ pc' = "idle"
    /\ IF sel_idx # None
        THEN LET f == refit(Val(x), Val(y), Val(sel_idx), poly_ord) IN
             IF f.raised
                THEN raised' = TRUE /\ UNCHANGED <<fit_params, written, printed>>
                ELSE /\ fit_params' = Some(f.c)
                     /\ written' = <<TRUE, TRUE>>
                     /\ UNCHANGED <<raised, printed>>
        ELSE /\ fit_params' = params_on_no_fit(fit_params)
             /\ written' = <<TRUE, TRUE>>
             /\ printed' = {MsgNoFit}
             /\ UNCHANGED raised
    /\ ref_params' =
          IF ref_sel = None THEN None
          ELSE LET g == refit(Val(x), Val(y), Val(ref_sel), poly_ord)
               IN  IF g.raised THEN None ELSE Some(g.c)
    /\ UNCHANGED <<config, data, sel_idx, poly_ord, i, last_op>>
    /\ UNCHANGED <<log, pre, args_valid, assigned, paired, win, ref_sel>>

\* ------------------------------------------------------ specification
\* line 14-29: the constructor, with its arguments in their documented ranges
Init ==
    /\ nr_tries \in 1..MaxTries
    /\ max_dif \in Tolerances
    /\ min_percent \in Fractions
    /\ x = None
    /\ y = None
    /\ fit_params = None
    /\ sel_idx = None
    /\ pc = "idle"
    /\ poly_ord = 0
    /\ i = 0
    /\ printed = {}
    /\ raised = FALSE
    /\ last_op = "none"
    /\ log = <<>>
    /\ pre = <<None, None>>
    /\ written = <<FALSE, FALSE>>
    /\ args_valid = <<FALSE, FALSE>>
    /\ assigned = <<FALSE, FALSE>>
    /\ paired = TRUE
    /\ win = None
    /\ ref_sel = None
    /\ ref_params = None

Next ==
    \/ \E ax \in Inputs : \E ay \in Inputs : set_2d_data(ax, ay)
    \/ \E ord \in Orders : fit_begin(ord)
    \/ fit_trial
    \/ fit_end

Spec == Init /\ [][Next]_vars

\* ------------------------------------------------------------ claims
FitEnded == last_op = "fit" /\ pc = "idle"
FitReturned == FitEnded /\ ~raised
HasData == x # None /\ y # None
NoTrialAccepted == \A k \in 1..Len(log) : ~log[k].took

\* C1: when a fit call returns and none of its trials was accepted, both
\* get_fit_params() and get_inliers() return None afterwards, also when a
\* result of an earlier fit call was stored on entry.
C1_NoFitDiscardsResult ==
    (FitReturned /\ HasData /\ NoTrialAccepted)
        => (fit_params = None /\ sel_idx = None)

\* C1 witness: a fit call entered with coefficients available ran all its
\* trials, accepted none, and left both attributes None.
C1_Witness ==
    /\ FitReturned /\ HasData /\ NoTrialAccepted
    /\ pre[1] # None
    /\ Len(log) = nr_tries
    /\ fit_params = None /\ sel_idx = None

\* C2 (as claimed): a fit call of order k on N < k+1 points runs no trial
\* and publishes no coefficients.
C2_InsufficientDataRejected ==
    (last_op = "fit" /\ HasData /\ Len(Val(x)) = Len(Val(y))
        /\ Len(Val(x)) < poly_ord + 1)
        => (log = <<>> /\ ~written[2])

\* C3 (as claimed): a set_2d_data call with an invalid argument assigns
\* neither attribute, and the stored x and y are both unset or both stored
\* by the same call.
C3_SetDataBothOrNeither ==
    /\ (last_op = "set" /\ ~(args_valid[1] /\ args_valid[2]))
          => assigned = <<FALSE, FALSE>>
    /\ \/ x = None /\ y = None
       \/ x # None /\ y # None /\ paired

\* C4 (as claimed): whenever both sequences are stored they have the same
\* length.
C4_StoredLengthsEqual ==
    HasData => Len(Val(x)) = Len(Val(y))

\* C5 (as claimed): when a fit call on stored x and y of equal length has
\* ended, by return or by exception, the coefficients and the mask are both
\* the values from before the call or both values assigned by this call,
\* and the coefficients are available iff the mask is.
C5_ResultNeverHalfWritten ==
    (FitEnded /\ HasData /\ Len(Val(x)) = Len(Val(y))) =>
        /\ \/ <<fit_params, sel_idx>> = pre
           \/ written = <<TRUE, TRUE>>
        /\ (fit_params = None) <=> (sel_idx = None)

\* C6 (as claimed): whenever the inlier mask is defined its length is N,
\* the number of points of the stored dataset (x and y of N values each).
C6_MaskLengthIsN ==
    (sel_idx # None /\ HasData /\ Len(Val(x)) = Len(Val(y)))
        => Len(Val(sel_idx)) = Len(Val(x))

\* C7: a fit call that returns leaves the coefficients and the mask that a
\* newly constructed instance computes from the same dataset, configuration,
\* order and samples, whatever result was stored when the call was entered.
C7_FitDeterministic ==
    (FitReturned /\ HasData)
        => (fit_params = ref_params /\ sel_idx = ref_sel)

\* C7 witness: a fit call entered with an earlier result stored accepted a
\* trial and published coefficients.
C7_Witness ==
    /\ FitReturned /\ HasData /\ pre[1] # None
    /\ Len(log) = nr_tries
    /\ ~NoTrialAccepted
    /\ fit_params # None /\ fit_params = ref_params /\ sel_idx = ref_sel

\* the stored dataset lies on y = a + b*x and has two distinct x-values
OnLine(a, b) ==
    /\ HasData
    /\ Len(Val(x)) = Len(Val(y))
    /\ \A j \in 1..Len(Val(x)) : Val(y)[j] = a + b * Val(x)[j]
    /\ \E j, k \in 1..Len(Val(x)) : Val(x)[j] # Val(x)[k]

Recovered(a, b) ==
    /\ fit_params = Some(<<RInt(a), RInt(b)>>)
    /\ sel_idx = Some([j \in 1..Len(Val(x)) |-> TRUE])

LineCoefs == (0..MaxVal) \X ((0 - MaxVal)..MaxVal)

\* C8 (as claimed): after fit(1) on points that all lie on y = a + b*x the
\* coefficients are [a, b] and the mask is all true, whatever was sampled.
C8_NoiseFreeRecovery ==
    \A ab \in LineCoefs :
        (FitEnded /\ poly_ord = 1 /\ OnLine(ab[1], ab[2]))
            => Recovered(ab[1], ab[2])

\* C8 (amended): the same, provided at least one trial of the call sampled
\* two distinct x-values.
C8_NoiseFreeRecoveryAmended ==
    \A ab \in LineCoefs :
        (FitEnded /\ poly_ord = 1 /\ OnLine(ab[1], ab[2])
            /\ \E k \in 1..Len(log) : ~log[k].degenerate)
            => Recovered(ab[1], ab[2])

\* C8 witness: on a noise-free line a degenerate first trial was accepted,
\* a later trial with two distinct x-values replaced it, and fit(1)
\* published the line with an all-true mask.
C8_Witness ==
    \E ab \in LineCoefs :
        /\ FitReturned /\ poly_ord = 1 /\ OnLine(ab[1], ab[2])
        /\ Len(log) = 2
        /\ log[1].degenerate /\ log[1].took
        /\ ~log[2].degenerate /\ log[2].took
        /\ ab[2] # 0
        /\ Recovered(ab[1], ab[2])

\* the trials before trial k that replaced the best mask
TookBefore(k) == {j \in 1..(k - 1) : log[j].took}
LastTook(k) == CHOOSE j \in TookBefore(k) : \A h \in TookBefore(k) : h <= j
ClearsThreshold(count) ==
    count * min_percent[2] > min_percent[1] * Len(Val(x))

\* C9: in a fit call, a trial that computed an inlier count replaces the
\* best mask iff the count exceeds min_percent * N and either no trial
\* replaced it before or the count exceeds the count of the last trial that
\* did; a skipped trial replaces nothing; the stored mask has the count of
\* the last replacing trial, and no earlier trial that cleared the threshold
\* reached that count.
C9_StrictImprovementOnly ==
    (last_op = "fit" /\ HasData) =>
        /\ \A k \in 1..Len(log) :
              IF log[k].skipped THEN ~log[k].took
              ELSE log[k].took <=>
                    /\ ClearsThreshold(log[k].count)
                    /\ \/ TookBefore(k) = {}
                       \/ log[k].count > log[LastTook(k)].count
        /\ TookBefore(Len(log) + 1) = {} => sel_idx = None
        /\ TookBefore(Len(log) + 1) # {} =>
              LET w == LastTook(Len(log) + 1) IN
              /\ count_nonzero(sel_idx) = log[w].count
              /\ \A j \in 1..Len(log) :
                    (~log[j].skipped /\ ClearsThreshold(log[j].count))
                        => /\ log[j].count <= log[w].count
                           /\ (log[j].count = log[w].count => j >= w)

\* C9 witness: a second trial replaced the mask of the first with a
\* strictly larger count.
C9_Witness ==
    /\ FitReturned /\ HasData
    /\ Len(log) = 2
    /\ log[1].took /\ log[2].took
    /\ log[2].count > log[1].count
    /\ count_nonzero(sel_idx) = log[2].count

\* C10 (as claimed): in a fit call of order k on N >= k+1 points, a trial
\* whose sample has repeated x-values never replaces the best mask, and a
\* fit call that returns has run nr_tries trials.
C10_DegenerateTrialSkipped ==
    (last_op = "fit" /\ HasData /\ Len(Val(x)) = Len(Val(y))
        /\ Len(Val(x)) >= poly_ord + 1) =>
        /\ \A k \in 1..Len(log) : log[k].degenerate => ~log[k].took
        /\ FitReturned => Len(log) = nr_tries

\* the fit through the points of a sample, and the mask of the points of
\* the dataset within max_dif of it
SampleFit(rnd) == polyfit(Take(Val(x), rnd), Take(Val(y), rnd), poly_ord).c
SampleInliers(rnd) == select(polyval(Val(x), SampleFit(rnd)), Val(y))

====
